---- MODULE Spec2Model ----
(***************************************************************************)
(* Think & Show MCP server (src/server.py): four tool handlers             *)
(*   draw_logic_flow, plot_data_chart, render_mindmap, generate_table      *)
(* run as cooperative tasks, one per request.                              *)
(*                                                                         *)
(* Python values are modelled as follows.                                  *)
(*   str   : a TLA+ string (ASCII), except the diagram markup, which is a  *)
(*           sequence of Unicode code points so that non-ASCII text and    *)
(*           its UTF-8 encoding are part of the model;                     *)
(*   bytes : a sequence of 0..255;                                         *)
(*   None  : the string constant None below (never a legal title here);    *)
(*   dict  : a function from its keys (strings) to values;                 *)
(*   a dataset colour: [type, val], type "str" (val the string) or "list"  *)
(*           (val the JSON text of the list), because str.replace exists   *)
(*           only on the first.                                            *)
(***************************************************************************)
EXTENDS Integers, Sequences, FiniteSets, TLC

VARIABLES
    cfg,       \* class Config, read from the environment at import
    pc,        \* pc[t]: where task t is in its handler
    call,      \* call[t]: the request the caller built (tool and arguments)
    datasets,  \* datasets[t]: the dataset dicts passed by reference to plot_data_chart
    local,     \* local[t]: draw_logic_flow's locals across its await
    client,    \* client[t]: the httpx.AsyncClient of the async-with block
    sent,      \* sent[t]: outbound HTTP requests this invocation has issued
    net,       \* HTTP requests in flight
    result     \* result[t]: the dict returned, or NoResult

vars == <<cfg, pc, call, datasets, local, client, sent, net, result>>

---------------------------------------------------------------------------
(* Bounds *)

NumTasks == 2        \* concurrent invocations
MaxCodeLen == 2      \* code points of diagram markup
MaxMixed == 2        \* datasets of arbitrary kind in one chart request
MaxPlain == 7        \* colourless datasets in one chart request (past one palette cycle)
MaxRows == 2         \* rows of a table request
MaxCols == 2         \* headers of a table request, and cells of a row

Tasks == 1..NumTasks

None == "<None>"
NoResult == [outcome |-> "none"]
NoCall == [tool |-> "none"]
NoLocal == [none |-> TRUE]

---------------------------------------------------------------------------
(* Text helpers *)

\* Printable ASCII in code point order: 32..95 and 97..126 (the lexer of
\* TLA+ has no way to write code point 96 in a string, so it is left out).
AsciiLow == " !\"#$%&'()*+,-./0123456789:;<=>?@ABCDEFGHIJKLMNOPQRSTUVWXYZ[\\]^_"

AsciiHigh == "abcdefghijklmnopqrstuvwxyz{|}~"

AsciiCodes == {10} \cup (32..95) \cup (97..126)

CharAt(s, i) == SubSeq(s, i, i)

\* chr(n)
Chr(n) ==
    IF n = 10 THEN "\n"
    ELSE IF n < 96 THEN CharAt(AsciiLow, n - 31) ELSE CharAt(AsciiHigh, n - 96)

OrdTable == [c \in {Chr(n) : n \in AsciiCodes} |-> CHOOSE n \in AsciiCodes : Chr(n) = c]

\* ord(c)
Ord(c) == OrdTable[c]

\* str -> code points
CodePoints(s) == [i \in 1..Len(s) |-> Ord(CharAt(s, i))]

RECURSIVE Join(_, _)
\* sep.join(parts)
Join(sep, parts) ==
    IF Len(parts) = 0 THEN ""
    ELSE IF Len(parts) = 1 THEN parts[1]
    ELSE parts[1] \o sep \o Join(sep, Tail(parts))

RECURSIVE Replace(_, _, _)
\* s.replace(old, new) for non-empty old: leftmost, non-overlapping occurrences
Replace(s, old, new) ==
    IF Len(s) < Len(old) THEN s
    ELSE IF SubSeq(s, 1, Len(old)) = old
         THEN new \o Replace(SubSeq(s, Len(old) + 1, Len(s)), old, new)
         ELSE CharAt(s, 1) \o Replace(SubSeq(s, 2, Len(s)), old, new)

---------------------------------------------------------------------------
(* Config and the lookup tables *)

MERMAID_BASE_URL == "https://mermaid.ink"
MERMAID_LIVE_URL == "https://mermaid.live"
QUICKCHART_URL == "https://quickchart.io/chart"
DEFAULT_MAX_URL_LENGTH == 8000

CHART_THEMES ==
    [light |-> [background |-> "#ffffff", font |-> "#333333", grid |-> "rgba(0, 0, 0, 0.1)"],
     dark  |-> [background |-> "#1e1e1e", font |-> "#ffffff", grid |-> "rgba(255, 255, 255, 0.1)"],
     kakao |-> [background |-> "#fee500", font |-> "#191919", grid |-> "rgba(0, 0, 0, 0.1)"]]

COLOR_PALETTES ==
    [default |-> <<"rgba(54, 162, 235, 0.7)", "rgba(255, 99, 132, 0.7)",
                   "rgba(75, 192, 192, 0.7)", "rgba(255, 206, 86, 0.7)",
                   "rgba(153, 102, 255, 0.7)", "rgba(255, 159, 64, 0.7)">>,
     pastel  |-> <<"rgba(174, 198, 207, 0.7)", "rgba(255, 179, 186, 0.7)",
                   "rgba(186, 255, 201, 0.7)", "rgba(255, 255, 186, 0.7)",
                   "rgba(186, 225, 255, 0.7)", "rgba(255, 198, 255, 0.7)">>,
     vibrant |-> <<"rgba(0, 123, 255, 0.8)", "rgba(220, 53, 69, 0.8)",
                   "rgba(40, 167, 69, 0.8)", "rgba(255, 193, 7, 0.8)",
                   "rgba(111, 66, 193, 0.8)", "rgba(253, 126, 20, 0.8)">>]

TABLE_STYLES ==
    [default |-> [header_bg |-> "#4CAF50", header_color |-> "white",
                  highlight_bg |-> "#E3F2FD", border |-> "#ddd"],
     dark    |-> [header_bg |-> "#333333", header_color |-> "white",
                  highlight_bg |-> "#444444", border |-> "#555555"],
     kakao   |-> [header_bg |-> "#fee500", header_color |-> "#191919",
                  highlight_bg |-> "#fff9c4", border |-> "#e0e0e0"]]

\* dict.get(name, fallback)
DictGet(d, name, fallback) == IF name \in DOMAIN d THEN d[name] ELSE fallback

get_color_palette(name) == DictGet(COLOR_PALETTES, name, COLOR_PALETTES["default"])

\* get_chart_theme that falls back to the dark theme
get_chart_theme_dark(name) == DictGet(CHART_THEMES, name, CHART_THEMES["dark"])

get_chart_theme(name) == DictGet(CHART_THEMES, name, CHART_THEMES["light"])

get_table_style(name) == DictGet(TABLE_STYLES, name, TABLE_STYLES["default"])

---------------------------------------------------------------------------
(* encode_mermaid: str.encode() (UTF-8), then base64.urlsafe_b64encode *)

\* UTF-8 bytes of one Unicode scalar value
Utf8Char(cp) ==
    IF cp < 128 THEN <<cp>>
    ELSE IF cp < 2048 THEN <<192 + (cp \div 64), 128 + (cp % 64)>>
    ELSE IF cp < 65536
         THEN <<224 + (cp \div 4096), 128 + ((cp \div 64) % 64), 128 + (cp % 64)>>
         ELSE <<240 + (cp \div 262144), 128 + ((cp \div 4096) % 64),
                128 + ((cp \div 64) % 64), 128 + (cp % 64)>>

RECURSIVE Utf8Encode(_)
Utf8Encode(cps) ==
    IF Len(cps) = 0 THEN <<>> ELSE Utf8Char(Head(cps)) \o Utf8Encode(Tail(cps))

UrlSafeAlphabet == "ABCDEFGHIJKLMNOPQRSTUVWXYZabcdefghijklmnopqrstuvwxyz0123456789-_"

B64Digit(i) == CharAt(UrlSafeAlphabet, i + 1)

RECURSIVE urlsafe_b64encode(_)
urlsafe_b64encode(b) ==
    IF Len(b) = 0 THEN ""
    ELSE IF Len(b) = 1
         THEN B64Digit(b[1] \div 4) \o B64Digit((b[1] % 4) * 16) \o "=="
    ELSE IF Len(b) = 2
         THEN B64Digit(b[1] \div 4) \o B64Digit(((b[1] % 4) * 16) + (b[2] \div 16))
              \o B64Digit((b[2] % 16) * 4) \o "="
    ELSE B64Digit(b[1] \div 4) \o B64Digit(((b[1] % 4) * 16) + (b[2] \div 16))
         \o B64Digit(((b[2] % 16) * 4) + (b[3] \div 64)) \o B64Digit(b[3] % 64)
         \o urlsafe_b64encode(SubSeq(b, 4, Len(b)))

encode_mermaid(diagram) == urlsafe_b64encode(Utf8Encode(diagram))

ImageUrl(encoded) == MERMAID_BASE_URL \o "/img/" \o encoded

EditUrl(encoded) == MERMAID_LIVE_URL \o "/edit#base64:" \o encoded

---------------------------------------------------------------------------
(* draw_logic_flow *)

\* f"%%{{init: {{'theme': '{theme}'}}}}%%"
ThemeDirective(theme) == "%%{init: {'theme': '" \o theme \o "'}}%%"

\* ThemedCode with the newline of the f-string left out
ThemedCodeNoNewline(theme, diagram_code) ==
    CodePoints(ThemeDirective(theme)) \o diagram_code

\* themed_code, as code points
ThemedCode(theme, diagram_code) ==
    CodePoints(ThemeDirective(theme) \o "\n") \o diagram_code

\* what the awaited client.head(image_url) can end with
ProbeOutcomes ==
    [kind : {"response"}, status_code : {200, 301, 404, 503}, error : {""}]
    \cup [kind : {"exception"}, status_code : {0}, error : {"TimeoutException", "ConnectError"}]

NoOutcome == [kind |-> "none", status_code |-> 0, error |-> ""]

\* Accessible that takes every status below 400 for a success
AccessibleBelow400(outcome) ==
    IF outcome.kind = "response" THEN outcome.status_code < 400 ELSE FALSE

\* the try/except around the probe
Accessible(outcome) ==
    IF outcome.kind = "response" THEN outcome.status_code = 200 ELSE FALSE

DiagramResult(req, loc) ==
    [outcome |-> "return",
     value |-> [success |-> TRUE, type |-> "diagram", diagram_type |-> req.diagram_type,
                title |-> req.title, image_url |-> loc.image_url,
                edit_url |-> loc.edit_url, accessible |-> loc.accessible,
                theme |-> req.theme]]

\* the call, up to entering the async-with block
DrawLogicFlow(t, req) ==
    /\ pc[t] = "idle"
    /\ LET encoded == encode_mermaid(ThemedCode(req.theme, req.diagram_code))
       IN local' = [local EXCEPT ![t] = [image_url |-> ImageUrl(encoded),
                                         edit_url |-> EditUrl(encoded),
                                         probe |-> NoOutcome,
                                         accessible |-> FALSE]]
    /\ call' = [call EXCEPT ![t] = req]
    /\ client' = [client EXCEPT ![t] = "open"]
    /\ sent' = [sent EXCEPT ![t] = 0]
    /\ pc' = [pc EXCEPT ![t] = "head"]
    /\ UNCHANGED <<cfg, datasets, net, result>>

\* client.head(image_url) is issued and the task suspends
SendHead(t) ==
    /\ pc[t] = "head"
    /\ net' = net \cup {[task |-> t, method |-> "HEAD", url |-> local[t].image_url]}
    /\ sent' = [sent EXCEPT ![t] = @ + 1]
    /\ pc' = [pc EXCEPT ![t] = "await"]
    /\ UNCHANGED <<cfg, call, datasets, local, client, result>>

\* AfterProbe that sends the probe again when it failed
RetryAfterProbe(outcome) == IF outcome.kind = "exception" THEN "head" ELSE "exit"

\* where the handler goes once the awaited probe has ended
AfterProbe(outcome) == "exit"

\* the await ends: a response, a timeout or a transport error
ProbeDone(t, outcome) ==
    /\ pc[t] = "await"
    /\ net' = {m \in net : m.task # t}
    /\ local' = [local EXCEPT ![t].probe = outcome, ![t].accessible = Accessible(outcome)]
    /\ pc' = [pc EXCEPT ![t] = AfterProbe(outcome)]
    /\ UNCHANGED <<cfg, call, datasets, client, sent, result>>

\* what leaving the async-with block does to the client
ClientOnExit(c) == "closed"

CloseClient(t) ==
    /\ pc[t] = "exit"
    /\ client' = [client EXCEPT ![t] = ClientOnExit(@)]
    /\ pc' = [pc EXCEPT ![t] = "return"]
    /\ UNCHANGED <<cfg, call, datasets, local, sent, net, result>>

ReturnDiagram(t) ==
    /\ pc[t] = "return"
    /\ result' = [result EXCEPT ![t] = DiagramResult(call[t], local[t])]
    /\ pc' = [pc EXCEPT ![t] = "done"]
    /\ UNCHANGED <<cfg, call, datasets, local, client, sent, net>>

---------------------------------------------------------------------------
(* json.dumps and urllib.parse.urlencode, as far as plot_data_chart uses them *)

\* A dict that keeps insertion order: a sequence of entries [key, type, val].
\* type "str": val is the Python string; type "json": val is the JSON text of
\* a value that is no string (a list of numbers, a list of colours).
PyStr(s) == [type |-> "str", val |-> s]

PyJson(text) == [type |-> "json", val |-> text]

Entry(k, v) == [key |-> k, type |-> v.type, val |-> v.val]

\* key in d
Has(d, k) == \E i \in DOMAIN d : d[i].key = k

\* d[key]
Get(d, k) == LET i == CHOOSE j \in DOMAIN d : d[j].key = k IN [type |-> d[i].type, val |-> d[i].val]

\* d[key] = v
Put(d, k, v) ==
    IF Has(d, k)
    THEN [i \in DOMAIN d |-> IF d[i].key = k THEN Entry(k, v) ELSE d[i]]
    ELSE Append(d, Entry(k, v))

\* json.dumps of one character of a str (ensure_ascii changes nothing in ASCII)
JsonEscape(c) ==
    IF c = "\"" THEN "\\\""
    ELSE IF c = "\\" THEN "\\\\"
    ELSE IF c = "\n" THEN "\\n"
    ELSE c

RECURSIVE JsonEscapeRange(_, _, _)
\* the escaped text of s[lo..hi], built by halves to keep the evaluation shallow
JsonEscapeRange(s, lo, hi) ==
    IF lo > hi THEN ""
    ELSE IF lo = hi THEN JsonEscape(CharAt(s, lo))
    ELSE LET mid == (lo + hi) \div 2
         IN JsonEscapeRange(s, lo, mid) \o JsonEscapeRange(s, mid + 1, hi)

JsonEscapeAll(s) == JsonEscapeRange(s, 1, Len(s))

JsonStr(s) == "\"" \o JsonEscapeAll(s) \o "\""

JsonList(items) == "[" \o Join(", ", items) \o "]"

JsonValue(v) == IF v.type = "str" THEN JsonStr(v.val) ELSE v.val

JsonDict(d) ==
    "{" \o Join(", ", [i \in DOMAIN d |-> JsonStr(d[i].key) \o ": " \o JsonValue(d[i])]) \o "}"

Unreserved == {CharAt("ABCDEFGHIJKLMNOPQRSTUVWXYZabcdefghijklmnopqrstuvwxyz0123456789_.-~", i) :
                  i \in 1..66}

HexDigit(n) == CharAt("0123456789ABCDEF", n + 1)

\* quote_plus of one character
QuoteTable == [c \in DOMAIN OrdTable |->
                  IF c \in Unreserved THEN c
                  ELSE IF c = " " THEN "+"
                  ELSE "%" \o HexDigit(Ord(c) \div 16) \o HexDigit(Ord(c) % 16)]

RECURSIVE QuoteRange(_, _, _)
\* the quoted text of s[lo..hi], built by halves to keep the evaluation shallow
QuoteRange(s, lo, hi) ==
    IF lo > hi THEN ""
    ELSE IF lo = hi THEN QuoteTable[CharAt(s, lo)]
    ELSE LET mid == (lo + hi) \div 2
         IN QuoteRange(s, lo, mid) \o QuoteRange(s, mid + 1, hi)

quote_plus(s) == QuoteRange(s, 1, Len(s))

\* urlencode of an ordered list of <<key, str(value)>> pairs
urlencode(params) ==
    Join("&", [i \in DOMAIN params |->
                  quote_plus(params[i][1]) \o "=" \o quote_plus(params[i][2])])

---------------------------------------------------------------------------
(* plot_data_chart *)

\* PaletteColor without the modulo: past the palette, its last colour
PaletteColorClamped(colors, i) == colors[(IF i < Len(colors) THEN i ELSE Len(colors) - 1) + 1]

\* colors[i % len(colors)], i counted from 0
PaletteColor(colors, i) == colors[(i % Len(colors)) + 1]

\* .replace("0.7", "1").replace("0.8", "1")
BorderFrom(fill) == Replace(Replace(fill, "0.7", "1"), "0.8", "1")

\* One turn of the colouring loop on dataset ds, the i-th (from 0). raised:
\* the turn ended in AttributeError (a fill colour that is no str has no
\* replace); ds is the dict as the turn left it.
ColorOne(ds, colors, i) ==
    LET ds1 == IF ~Has(ds, "backgroundColor")
               THEN Put(ds, "backgroundColor", PyStr(PaletteColor(colors, i)))
               ELSE ds
        fill == Get(ds1, "backgroundColor")
    IN IF Has(ds1, "borderColor") THEN [raised |-> FALSE, ds |-> ds1]
       ELSE IF fill.type # "str" THEN [raised |-> TRUE, ds |-> ds1]
       ELSE [raised |-> FALSE, ds |-> Put(ds1, "borderColor", PyStr(BorderFrom(fill.val)))]

RECURSIVE ColorLoop(_, _, _)
\* for i, ds in enumerate(datasets): the dicts are changed in place
ColorLoop(dss, colors, i) ==
    IF i >= Len(dss) THEN [raised |-> FALSE, datasets |-> dss]
    ELSE LET r == ColorOne(dss[i + 1], colors, i)
             after == [dss EXCEPT ![i + 1] = r.ds]
         IN IF r.raised THEN [raised |-> TRUE, datasets |-> after]
            ELSE ColorLoop(after, colors, i + 1)

NoAxes == {"pie", "doughnut", "radar"}

AxisJson(theme_config) ==
    "{\"ticks\": {\"color\": " \o JsonStr(theme_config.font)
    \o "}, \"grid\": {\"color\": " \o JsonStr(theme_config.grid) \o "}}"

ScalesJson(chart_type, theme_config) ==
    IF chart_type \in NoAxes THEN "{}"
    ELSE "{\"x\": " \o AxisJson(theme_config) \o ", \"y\": " \o AxisJson(theme_config) \o "}"

\* if title: (None and "" are falsy)
Truthy(title) == title # None /\ title # ""

TitleJson(title, theme_config) ==
    IF Truthy(title)
    THEN ", \"title\": {\"display\": true, \"text\": " \o JsonStr(title)
         \o ", \"color\": " \o JsonStr(theme_config.font) \o ", \"font\": {\"size\": 16}}"
    ELSE ""

\* json.dumps(chart_config)
ChartJson(req, dss, theme_config) ==
    "{\"type\": " \o JsonStr(req.chart_type)
    \o ", \"data\": {\"labels\": " \o JsonList([i \in DOMAIN req.labels |-> JsonStr(req.labels[i])])
    \o ", \"datasets\": " \o JsonList([i \in DOMAIN dss |-> JsonDict(dss[i])])
    \o "}, \"options\": {\"responsive\": false, \"plugins\": {\"legend\": {\"labels\": {\"color\": "
    \o JsonStr(theme_config.font) \o "}}" \o TitleJson(req.title, theme_config)
    \o "}, \"scales\": " \o ScalesJson(req.chart_type, theme_config) \o "}}"

\* f"{Config.QUICKCHART_URL}?{urllib.parse.urlencode(params)}"
ChartUrl(req, chart_json, theme_config) ==
    QUICKCHART_URL \o "?"
    \o urlencode(<< <<"c", chart_json>>,
                    <<"w", ToString(req.width)>>,
                    <<"h", ToString(req.height)>>,
                    <<"bkg", theme_config.background>> >>)

\* UrlTooLong with >= for >
UrlTooLongOrEqual(chart_url, max_len) == Len(chart_url) >= max_len

\* len(chart_url) > Config.QUICKCHART_MAX_URL_LENGTH
UrlTooLong(chart_url, max_len) == Len(chart_url) > max_len

\* The whole handler on request req, with dss the dataset dicts it was passed:
\* how it ends, what it returns, the dataset dicts as it leaves them, and its
\* locals chart_json and chart_url (empty when it raised before setting them).
PlotDataChart(config, req, dss) ==
    LET theme_config == get_chart_theme(req.theme)
        colors == get_color_palette(req.color_palette)
        loop == ColorLoop(dss, colors, 0)
    IN IF loop.raised
       THEN [outcome |-> "raise", value |-> "AttributeError", datasets |-> loop.datasets,
             locals |-> [chart_json |-> "", chart_url |-> ""]]
       ELSE LET chart_json == ChartJson(req, loop.datasets, theme_config)
                chart_url == ChartUrl(req, chart_json, theme_config)
                value == IF UrlTooLong(chart_url, config.QUICKCHART_MAX_URL_LENGTH)
                         THEN [success |-> FALSE,
                               error |-> "Chart data too large. Reduce data points."]
                         ELSE [success |-> TRUE, type |-> "chart",
                               chart_type |-> req.chart_type, title |-> req.title,
                               image_url |-> chart_url, theme |-> req.theme,
                               dimensions |-> [width |-> req.width, height |-> req.height]]
            IN [outcome |-> "return", value |-> value, datasets |-> loop.datasets,
                locals |-> [chart_json |-> chart_json, chart_url |-> chart_url]]

\* plot_data_chart never awaits: one step from call to return (or raise)
PlotChart(t, req) ==
    /\ pc[t] = "idle"
    /\ \E r \in {PlotDataChart(cfg, req, req.datasets)} :
          /\ result' = [result EXCEPT ![t] = [outcome |-> r.outcome, value |-> r.value]]
          /\ datasets' = [datasets EXCEPT ![t] = r.datasets]
          /\ local' = [local EXCEPT ![t] = r.locals]
          /\ pc' = [pc EXCEPT ![t] = IF r.outcome = "raise" THEN "raised" ELSE "done"]
    /\ call' = [call EXCEPT ![t] = req]
    /\ UNCHANGED <<cfg, client, sent, net>>

---------------------------------------------------------------------------
(* render_mindmap *)

RECURSIVE BranchLines(_)
\* the lines the loop over branches appends
BranchLines(branches) ==
    IF Len(branches) = 0 THEN <<>>
    ELSE LET branch == Head(branches)
             branch_name == DictGet(branch, "name", "")
             children == DictGet(branch, "children", <<>>)
         IN <<"    " \o branch_name>>
            \o [i \in DOMAIN children |-> "      " \o children[i]]
            \o BranchLines(Tail(branches))

MindmapLines(req) ==
    <<ThemeDirective(req.theme), "mindmap", "  root((" \o req.central_topic \o "))">>
    \o BranchLines(req.branches)

RenderMindmap(req) ==
    LET diagram_code == Join("\n", MindmapLines(req))
        encoded == encode_mermaid(CodePoints(diagram_code))
    IN [outcome |-> "return",
        value |-> [success |-> TRUE, type |-> "mindmap",
                   title |-> IF Truthy(req.title) THEN req.title ELSE req.central_topic,
                   image_url |-> ImageUrl(encoded), edit_url |-> EditUrl(encoded),
                   theme |-> req.theme, branch_count |-> Len(req.branches)]]

\* render_mindmap never awaits: one step from call to return
Mindmap(t, req) ==
    /\ pc[t] = "idle"
    /\ result' = [result EXCEPT ![t] = RenderMindmap(req)]
    /\ call' = [call EXCEPT ![t] = req]
    /\ pc' = [pc EXCEPT ![t] = "done"]
    /\ UNCHANGED <<cfg, datasets, local, client, sent, net>>

---------------------------------------------------------------------------
(* generate_table. highlight_column: <<>> is None, <<k>> is the int k. *)

RECURSIVE ScanRows(_, _, _)
\* the validation loop: the index (from 0) of the row it returns on, or -1
ScanRows(rows, col_count, i) ==
    IF i >= Len(rows) THEN -1
    ELSE IF Len(rows[i + 1]) # col_count THEN i
    ELSE ScanRows(rows, col_count, i + 1)

\* MismatchError with the loop index for the row number
MismatchErrorFromZero(i) == "Row " \o ToString(i) \o " column count mismatch."

\* f"Row {i+1} column count mismatch."
MismatchError(i) == "Row " \o ToString(i + 1) \o " column count mismatch."

\* SeparatorCell that counts the columns from 1
SeparatorCellFromOne(highlight_column, i) ==
    IF highlight_column = <<i + 1>> THEN ":---:" ELSE "---"

\* ":---:" if highlight_column == i else "---"
SeparatorCell(highlight_column, i) == IF highlight_column = <<i>> THEN ":---:" ELSE "---"

\* f"**{cell}**" if i == highlight_column else cell
MarkdownCell(highlight_column, i, cell) ==
    IF highlight_column = <<i>> THEN "**" \o cell \o "**" ELSE cell

MarkdownRow(cells) == "| " \o Join(" | ", cells) \o " |"

MarkdownLines(req) ==
    LET col_count == Len(req.headers)
    IN (IF Truthy(req.title) THEN <<"### " \o req.title \o "\n">> ELSE <<>>)
       \o <<MarkdownRow(req.headers)>>
       \o <<MarkdownRow([j \in 1..col_count |-> SeparatorCell(req.highlight_column, j - 1)])>>
       \o [r \in DOMAIN req.rows |->
              MarkdownRow(IF req.highlight_column # <<>>
                          THEN [j \in DOMAIN req.rows[r] |->
                                   MarkdownCell(req.highlight_column, j - 1, req.rows[r][j])]
                          ELSE req.rows[r])]

HtmlTh(s, highlight_column, i, h) ==
    "    <th style=\"border: 1px solid " \o s.border \o "; padding: 8px; background-color: "
    \o (IF highlight_column = <<i>> THEN s.highlight_bg ELSE s.header_bg)
    \o "; color: " \o s.header_color \o ";\">" \o h \o "</th>"

HtmlTd(s, highlight_column, i, cell) ==
    "      <td style=\"border: 1px solid " \o s.border \o "; padding: 8px; background-color: "
    \o (IF highlight_column = <<i>> THEN s.highlight_bg ELSE "transparent")
    \o "; font-weight: " \o (IF highlight_column = <<i>> THEN "bold" ELSE "normal")
    \o ";\">" \o cell \o "</td>"

RECURSIVE HtmlRows(_, _, _)
HtmlRows(s, highlight_column, rows) ==
    IF Len(rows) = 0 THEN <<>>
    ELSE <<"    <tr>">>
         \o [j \in DOMAIN Head(rows) |-> HtmlTd(s, highlight_column, j - 1, Head(rows)[j])]
         \o <<"    </tr>">>
         \o HtmlRows(s, highlight_column, Tail(rows))

HtmlLines(req, s) ==
    (IF Truthy(req.title) THEN <<"<h3>" \o req.title \o "</h3>">> ELSE <<>>)
    \o <<"<table style=\"border-collapse: collapse; width: 100%;\">", "  <thead><tr>">>
    \o [j \in DOMAIN req.headers |-> HtmlTh(s, req.highlight_column, j - 1, req.headers[j])]
    \o <<"  </tr></thead><tbody>">>
    \o HtmlRows(s, req.highlight_column, req.rows)
    \o <<"  </tbody></table>">>

Failure(message) == [outcome |-> "return", value |-> [success |-> FALSE, error |-> message]]

GenerateTable(req) ==
    LET col_count == Len(req.headers)
        bad == ScanRows(req.rows, col_count, 0)
        table_style == get_table_style(req.style)
        lines == IF req.format = "markdown" THEN MarkdownLines(req)
                 ELSE HtmlLines(req, table_style)
    IN IF Len(req.headers) = 0 \/ Len(req.rows) = 0
       THEN Failure("Headers and rows cannot be empty.")
       ELSE IF bad >= 0 THEN Failure(MismatchError(bad))
       ELSE [outcome |-> "return",
             value |-> [success |-> TRUE, type |-> "table", format |-> req.format,
                        title |-> req.title, table |-> Join("\n", lines),
                        dimensions |-> [columns |-> col_count, rows |-> Len(req.rows)]]]

\* generate_table never awaits: one step from call to return
Table(t, req) ==
    /\ pc[t] = "idle"
    /\ result' = [result EXCEPT ![t] = GenerateTable(req)]
    /\ call' = [call EXCEPT ![t] = req]
    /\ pc' = [pc EXCEPT ![t] = "done"]
    /\ UNCHANGED <<cfg, datasets, local, client, sent, net>>

---------------------------------------------------------------------------
(* The host: it takes what a finished invocation returned or raised, which
   frees the task for the next request. *)

Collect(t) ==
    /\ pc[t] \in {"done", "raised"}
    /\ pc' = [pc EXCEPT ![t] = "idle"]
    /\ call' = [call EXCEPT ![t] = NoCall]
    /\ datasets' = [datasets EXCEPT ![t] = <<>>]
    /\ local' = [local EXCEPT ![t] = NoLocal]
    /\ client' = [client EXCEPT ![t] = "none"]
    /\ sent' = [sent EXCEPT ![t] = 0]
    /\ result' = [result EXCEPT ![t] = NoResult]
    /\ UNCHANGED <<cfg, net>>

---------------------------------------------------------------------------
(* Requests *)

SeqsUpTo(S, n) == UNION {[1..k -> S] : k \in 0..n}

\* Diagram markup: 'A', '>', '?' (the last two give the base64 digits 62 and
\* 63), U+00E9 (two UTF-8 bytes) and U+AC00 (three).
CodeAlphabet == {65, 62, 63, 233, 44032}

DiagramThemes == {"default", "dark", "forest", "neutral"}

\* "neon" is no theme of any tool; "x'y" is not even a word
DiagramRequests ==
    [tool : {"draw_logic_flow"}, diagram_code : SeqsUpTo(CodeAlphabet, MaxCodeLen),
     diagram_type : {"flowchart"}, theme : DiagramThemes \cup {"neon"}, title : {None}]

PlainDataset == <<Entry("label", PyStr("S")), Entry("data", PyJson("[1, 2]"))>>

\* a fill colour of the caller's, with an alpha the border derivation does not know
FilledDataset == Append(PlainDataset, Entry("backgroundColor", PyStr("rgba(10, 20, 30, 0.5)")))

\* one fill colour per data point, as pie and doughnut charts take them
ListFilledDataset ==
    Append(PlainDataset, Entry("backgroundColor", PyJson("[\"red\", \"blue\"]")))

BorderedDataset == Append(PlainDataset, Entry("borderColor", PyStr("black")))

DatasetKinds == {PlainDataset, FilledDataset, ListFilledDataset, BorderedDataset}

DatasetLists ==
    SeqsUpTo(DatasetKinds, MaxMixed) \cup {[i \in 1..n |-> PlainDataset] : n \in 0..MaxPlain}

PaletteNames == {"default", "pastel", "vibrant", "rainbow"}

ChartRequestsWith(types, lists, titles, themes, palettes) ==
    [tool : {"plot_data_chart"}, chart_type : types, labels : {<<"Jan", "Q 1">>},
     datasets : lists, title : titles, theme : themes, color_palette : palettes,
     width : {500}, height : {300}]

ChartRequests ==
    ChartRequestsWith({"bar", "pie"}, DatasetLists, {None, "T 1"}, {"light", "dark"},
                      PaletteNames)

\* Cell (r, c) of a table, counted from 1
CellText(r, c) == "r" \o ToString(r) \o "c" \o ToString(c)

HeaderText(c) == "H" \o ToString(c)

\* rows given by their lengths, so that every shape up to the bounds occurs
RowsOfShape(shape) == [r \in DOMAIN shape |-> [c \in 1..shape[r] |-> CellText(r, c)]]

TableRequestsWith(shapes, titles, formats, styles) ==
    [tool : {"generate_table"},
     headers : {[c \in 1..n |-> HeaderText(c)] : n \in 0..MaxCols},
     rows : {RowsOfShape(shape) : shape \in shapes},
     title : titles, format : formats, style : styles,
     highlight_column : {<<>>} \cup {<<k>> : k \in -1..MaxCols}]

TableRequests ==
    TableRequestsWith(SeqsUpTo(0..MaxCols, MaxRows), {None, "Plans"}, {"markdown", "html"},
                      {"default"})

MindmapRequestsWith(themes) ==
    [tool : {"render_mindmap"}, central_topic : {"Root"},
     branches : {<<>>, <<[name |-> "B1", children |-> <<"c1", "c2">>]>>,
                 <<[name |-> "B1", children |-> <<>>], [children |-> <<"c1">>]>>},
     theme : themes, title : {None}]

\* Requests under every name of the lookup tables and under "neon" and
\* "rainbow", which are names of none
NamedDiagramRequests ==
    {r \in DiagramRequests : r.diagram_code = <<65, 44032>> /\ r.theme \in {"dark", "neon"}}

NamedChartRequests ==
    ChartRequestsWith({"bar"}, {<<PlainDataset>>, <<ListFilledDataset>>, <<PlainDataset, PlainDataset>>},
                      {None}, {"light", "dark", "kakao", "neon"}, PaletteNames)

NamedTableRequests ==
    TableRequestsWith(SeqsUpTo(0..MaxCols, 1), {None}, {"markdown", "html"},
                      {"default", "dark", "kakao", "neon"})

NamedMindmapRequests == MindmapRequestsWith({"default", "neon"})

\* The few requests of each tool that the concurrent specification runs
FewDiagramRequests == {r \in NamedDiagramRequests : r.theme = "dark"}

\* a probe that is answered with 200, and one that times out
FewProbeOutcomes ==
    {o \in ProbeOutcomes : o.status_code = 200 \/ o.error = "TimeoutException"}

FewChartRequests ==
    ChartRequestsWith({"bar"}, {<<PlainDataset>>, <<ListFilledDataset>>}, {None}, {"light"},
                      {"default"})

FewTableRequests ==
    {r \in TableRequestsWith({<<>>, <<1>>}, {None}, {"html"}, {"default"}) :
        /\ r.highlight_column = <<0>>
        /\ Len(r.headers) = Len(r.rows)}

FewMindmapRequests == MindmapRequestsWith({"default"})

---------------------------------------------------------------------------
(* Specifications *)

\* QUICKCHART_MAX_URL_LENGTH as the environment may set it: the default, and
\* values among the URL lengths of the chart requests above.
MaxUrlLengths == {DEFAULT_MAX_URL_LENGTH, 1000}

InitWith(lengths) ==
    /\ cfg \in [QUICKCHART_MAX_URL_LENGTH : lengths]
    /\ pc = [t \in Tasks |-> "idle"]
    /\ call = [t \in Tasks |-> NoCall]
    /\ datasets = [t \in Tasks |-> <<>>]
    /\ local = [t \in Tasks |-> NoLocal]
    /\ client = [t \in Tasks |-> "none"]
    /\ sent = [t \in Tasks |-> 0]
    /\ net = {}
    /\ result = [t \in Tasks |-> NoResult]

Init == InitWith({DEFAULT_MAX_URL_LENGTH})

\* the steps of a draw_logic_flow invocation after its call, its probe ending
\* in one of outcomes
DiagramSteps(t, outcomes) ==
    \/ SendHead(t)
    \/ \E outcome \in outcomes : ProbeDone(t, outcome)
    \/ CloseClient(t)
    \/ ReturnDiagram(t)

\* Any number of invocations at once, one task each
Next ==
    \E t \in Tasks :
        \/ \E req \in FewDiagramRequests : DrawLogicFlow(t, req)
        \/ DiagramSteps(t, FewProbeOutcomes)
        \/ \E req \in FewChartRequests : PlotChart(t, req)
        \/ \E req \in FewMindmapRequests : Mindmap(t, req)
        \/ \E req \in FewTableRequests : Table(t, req)
        \/ Collect(t)

Spec == Init /\ [][Next]_vars

\* One caller, one request at a time: draw_logic_flow on every diagram request
NextDiagram ==
    \/ \E req \in DiagramRequests : DrawLogicFlow(1, req)
    \/ DiagramSteps(1, ProbeOutcomes)
    \/ Collect(1)

SpecDiagram == Init /\ [][NextDiagram]_vars

\* One caller: plot_data_chart on every chart request, under every ceiling
NextChart ==
    \/ \E req \in ChartRequests : PlotChart(1, req)
    \/ Collect(1)

SpecChart == InitWith(MaxUrlLengths) /\ [][NextChart]_vars

\* One caller: generate_table on every table request
NextTable ==
    \/ \E req \in TableRequests : Table(1, req)
    \/ Collect(1)

SpecTable == Init /\ [][NextTable]_vars

\* One caller: every tool, under known and unknown theme, palette and style names
NextNames ==
    \/ \E req \in NamedDiagramRequests : DrawLogicFlow(1, req)
    \/ DiagramSteps(1, FewProbeOutcomes)
    \/ \E req \in NamedChartRequests : PlotChart(1, req)
    \/ \E req \in NamedMindmapRequests : Mindmap(1, req)
    \/ \E req \in NamedTableRequests : Table(1, req)
    \/ Collect(1)

SpecNames == Init /\ [][NextNames]_vars

---------------------------------------------------------------------------
(* What the claims speak of *)

Finished(t) == pc[t] \in {"done", "raised"}

Returned(t, tool) == pc[t] = "done" /\ call[t].tool = tool /\ result[t].outcome = "return"

\* The URL-safe alphabet of RFC 4648, section 5, and its decoder
Rfc4648UrlSafe == "ABCDEFGHIJKLMNOPQRSTUVWXYZabcdefghijklmnopqrstuvwxyz0123456789-_"

B64Digits == {CharAt(Rfc4648UrlSafe, i) : i \in 1..64}

B64Value(c) == (CHOOSE i \in 1..64 : CharAt(Rfc4648UrlSafe, i) = c) - 1

RECURSIVE B64Decode(_)
\* the bytes that text s encodes; <<-1>> when s is no URL-safe base64 text
B64Decode(s) ==
    IF Len(s) = 0 THEN <<>>
    ELSE IF Len(s) < 4 \/ ~({CharAt(s, 1), CharAt(s, 2)} \subseteq B64Digits) THEN <<-1>>
    ELSE LET v1 == B64Value(CharAt(s, 1))
             v2 == B64Value(CharAt(s, 2))
             b1 == (v1 * 4) + (v2 \div 16)
         IN IF Len(s) = 4 /\ SubSeq(s, 3, 4) = "==" THEN <<b1>>
            ELSE IF CharAt(s, 3) \notin B64Digits THEN <<-1>>
            ELSE LET v3 == B64Value(CharAt(s, 3))
                     b2 == ((v2 % 16) * 16) + (v3 \div 4)
                 IN IF Len(s) = 4 /\ CharAt(s, 4) = "=" THEN <<b1, b2>>
                    ELSE IF CharAt(s, 4) \notin B64Digits THEN <<-1>>
                    ELSE <<b1, b2, ((v3 % 4) * 64) + B64Value(CharAt(s, 4))>>
                         \o B64Decode(SubSeq(s, 5, Len(s)))

RECURSIVE Utf8Decode(_)
\* the code points that well-formed UTF-8 bytes b encode
Utf8Decode(b) ==
    IF Len(b) = 0 THEN <<>>
    ELSE IF b[1] < 128 THEN <<b[1]>> \o Utf8Decode(SubSeq(b, 2, Len(b)))
    ELSE IF b[1] < 224
         THEN <<((b[1] - 192) * 64) + (b[2] - 128)>> \o Utf8Decode(SubSeq(b, 3, Len(b)))
    ELSE IF b[1] < 240
         THEN <<((b[1] - 224) * 4096) + ((b[2] - 128) * 64) + (b[3] - 128)>>
              \o Utf8Decode(SubSeq(b, 4, Len(b)))
    ELSE <<((b[1] - 240) * 262144) + ((b[2] - 128) * 4096) + ((b[3] - 128) * 64)
           + (b[4] - 128)>> \o Utf8Decode(SubSeq(b, 5, Len(b)))

StartsWith(s, prefix) == Len(s) >= Len(prefix) /\ SubSeq(s, 1, Len(prefix)) = prefix

After(s, prefix) == SubSeq(s, Len(prefix) + 1, Len(s))

\* C3: for every draw_logic_flow request, the segment of image_url after
\* '<viewer-base>/img/' decodes (URL-safe base64, then UTF-8) to the theme
\* directive line, a newline and the diagram_code as given, and edit_url
\* carries the same segment after '/edit#base64:'.
C3_PayloadRoundTrip ==
    \A t \in Tasks :
        Returned(t, "draw_logic_flow") =>
            LET v == result[t].value
                viewer == MERMAID_BASE_URL \o "/img/"
                seg == After(v.image_url, viewer)
            IN /\ StartsWith(v.image_url, viewer)
               /\ Utf8Decode(B64Decode(seg))
                    = CodePoints("%%{init: {'theme': '" \o call[t].theme \o "'}}%%")
                      \o <<10>> \o call[t].diagram_code
               /\ v.edit_url = MERMAID_LIVE_URL \o "/edit#base64:" \o seg

\* a full-length markup with a three-byte character, under a theme that is no
\* known theme, has been encoded and returned
C3_Witness ==
    /\ Returned(1, "draw_logic_flow")
    /\ Len(call[1].diagram_code) = MaxCodeLen
    /\ call[1].diagram_code[1] = 44032
    /\ call[1].theme = "forest"

Colourless(ds) == ~Has(ds, "backgroundColor") /\ ~Has(ds, "borderColor")

\* the palette a name selects
SelectedPalette(name) ==
    IF name \in DOMAIN COLOR_PALETTES THEN COLOR_PALETTES[name] ELSE COLOR_PALETTES["default"]

\* colour c = "rgba(r, g, b, a)" with its last token, a, replaced by "1"
AlphaToOne(c) ==
    LET cut == CHOOSE i \in 1..Len(c) :
                   CharAt(c, i) = " " /\ \A j \in (i + 1)..Len(c) : CharAt(c, j) # " "
    IN SubSeq(c, 1, cut) \o "1)"

\* C4: every dataset that came with neither backgroundColor nor borderColor
\* has, once plot_data_chart has returned, the fill colour
\* palette[i mod len(palette)] of the selected palette (i from 0) and as border
\* colour that fill colour with its alpha token replaced by "1"; a dataset the
\* loop reached before the call raised has them too.
C4_PaletteCycle ==
    \A t \in Tasks :
        Finished(t) /\ call[t].tool = "plot_data_chart" =>
            \A i \in DOMAIN call[t].datasets :
                Colourless(call[t].datasets[i]) =>
                    LET ds == datasets[t][i]
                        palette == SelectedPalette(call[t].color_palette)
                        fill == palette[((i - 1) % Len(palette)) + 1]
                    IN /\ pc[t] = "done" => Has(ds, "backgroundColor")
                       /\ Has(ds, "backgroundColor") =>
                            /\ Get(ds, "backgroundColor") = PyStr(fill)
                            /\ Has(ds, "borderColor")
                            /\ Get(ds, "borderColor") = PyStr(AlphaToOne(fill))

\* more colourless datasets than the palette has colours, under a palette
\* whose alpha is 0.8
C4_Witness ==
    /\ Returned(1, "plot_data_chart")
    /\ call[1].color_palette = "vibrant"
    /\ Len(call[1].datasets) = MaxPlain
    /\ Get(datasets[1][MaxPlain], "borderColor") = PyStr("rgba(0, 123, 255, 1)")

\* C9: plot_data_chart leaves the dataset records it was given as they were
C9_DatasetsUnchanged ==
    \A t \in Tasks :
        Finished(t) /\ call[t].tool = "plot_data_chart" => datasets[t] = call[t].datasets

\* the rows of a table request whose length differs from the header count
Offending(req) == {k \in DOMAIN req.rows : Len(req.rows[k]) # Len(req.headers)}

FirstOffending(req) == CHOOSE k \in Offending(req) : \A j \in Offending(req) : k <= j

NamesRow(message, k) == message = "Row " \o ToString(k) \o " column count mismatch."

\* The original C2: every generate_table request with a row whose length
\* differs from the header count fails with a message that names the first
\* such row by its position counted from 1.
C2_MismatchNamesRow ==
    \A t \in Tasks :
        Returned(t, "generate_table") /\ Offending(call[t]) # {} =>
            /\ ~result[t].value.success
            /\ NamesRow(result[t].value.error, FirstOffending(call[t]))

\* C2 as amended: the same, for requests whose headers are not empty (with
\* empty headers the request fails on the emptiness check, which comes first).
C2_MismatchNamesRowGivenHeaders ==
    \A t \in Tasks :
        /\ Returned(t, "generate_table")
        /\ Len(call[t].headers) > 0
        /\ Offending(call[t]) # {}
        => /\ ~result[t].value.success
           /\ NamesRow(result[t].value.error, FirstOffending(call[t]))

\* a request whose first row fits and whose second does not has been refused
C2_Witness ==
    /\ Returned(1, "generate_table")
    /\ Len(call[1].headers) > 0
    /\ Offending(call[1]) = {2}
    /\ result[1].value.error = "Row 2 column count mismatch."

\* the position of the first occurrence of sep in s, or 0
Find(s, sep) ==
    LET hits == {i \in 1..(Len(s) - Len(sep) + 1) : SubSeq(s, i, i + Len(sep) - 1) = sep}
    IN IF hits = {} THEN 0 ELSE CHOOSE i \in hits : \A j \in hits : i <= j

RECURSIVE Split(_, _)
\* s.split(sep)
Split(s, sep) ==
    LET at == Find(s, sep)
    IN IF at = 0 THEN <<s>>
       ELSE <<SubSeq(s, 1, at - 1)>> \o Split(SubSeq(s, at + Len(sep), Len(s)), sep)

\* the cells of one line "| a | b |" of a Markdown table
CellsOf(line) == Split(SubSeq(line, 3, Len(line) - 2), " | ")

\* the lines of the Markdown table in a result, from its header row on
TableRows(req, table) ==
    LET lines == Split(table, "\n")
        skip == IF Truthy(req.title) THEN 2 ELSE 0
    IN SubSeq(lines, skip + 1, Len(lines))

\* C8: for every valid generate_table request in markdown format with
\* highlight_column = k, 0 <= k < number of headers, the separator row has
\* ':---:' at position k and '---' at every other position, and in every data
\* row the cell at position k is the given cell wrapped in '**' while every
\* other cell is the given cell.
C8_MarkdownHighlight ==
    \A t \in Tasks :
        /\ Returned(t, "generate_table")
        /\ call[t].format = "markdown"
        /\ Len(call[t].headers) > 0 /\ Len(call[t].rows) > 0 /\ Offending(call[t]) = {}
        /\ \E k \in 0..(Len(call[t].headers) - 1) : call[t].highlight_column = <<k>>
        => LET req == call[t]
               k == req.highlight_column[1]
               n == Len(req.headers)
               out == TableRows(req, result[t].value.table)
           IN /\ result[t].value.success
              /\ Len(out) = 2 + Len(req.rows)
              /\ CellsOf(out[2]) = [j \in 1..n |-> IF j - 1 = k THEN ":---:" ELSE "---"]
              /\ \A r \in DOMAIN req.rows :
                    CellsOf(out[2 + r])
                      = [j \in 1..n |-> IF j - 1 = k THEN "**" \o req.rows[r][j] \o "**"
                                        ELSE req.rows[r][j]]

\* a titled table of the largest shape, its last column highlighted, has been
\* rendered as Markdown
C8_Witness ==
    /\ Returned(1, "generate_table")
    /\ call[1].format = "markdown" /\ call[1].title = "Plans"
    /\ Len(call[1].headers) = MaxCols /\ Len(call[1].rows) = MaxRows
    /\ Offending(call[1]) = {}
    /\ call[1].highlight_column = <<MaxCols - 1>>
    /\ result[1].value.success

\* C5: every draw_logic_flow invocation ends by returning success = TRUE,
\* whatever its probe ended with; accessible is TRUE exactly when the probe
\* ended with a response of status 200, and FALSE after any other status, a
\* timeout or a transport error.
C5_ProbeNeverFails ==
    \A t \in Tasks :
        call[t].tool = "draw_logic_flow" =>
            /\ pc[t] # "raised"
            /\ pc[t] = "done" =>
                 /\ result[t].outcome = "return"
                 /\ result[t].value.success
                 /\ result[t].value.accessible
                      <=> (local[t].probe.kind = "response"
                           /\ local[t].probe.status_code = 200)

\* an invocation whose probe timed out has returned success, not accessible
C5_Witness ==
    /\ Returned(1, "draw_logic_flow")
    /\ local[1].probe.error = "TimeoutException"
    /\ result[1].value.success /\ ~result[1].value.accessible

\* C6: no invocation of any tool ends by raising an error
C6_NothingRaises == \A t \in Tasks : pc[t] # "raised"

\* the default a lookup-table name falls back to
OrDefault(name, table, default) == IF name \in DOMAIN table THEN name ELSE default

\* the generated text of a result: its image_url, or its table
Artefact(v) ==
    IF "image_url" \in DOMAIN v THEN v.image_url
    ELSE IF "table" \in DOMAIN v THEN v.table ELSE ""

\* what the chart and table tools return for req's names replaced by the
\* defaults they fall back to
ChartWithDefaults(req) ==
    PlotDataChart(cfg,
                  [req EXCEPT !.theme = OrDefault(@, CHART_THEMES, "light"),
                              !.color_palette = OrDefault(@, COLOR_PALETTES, "default")],
                  req.datasets)

TableWithDefaults(req) ==
    GenerateTable([req EXCEPT !.style = OrDefault(@, TABLE_STYLES, "default")])

SameOutcome(got, want) ==
    /\ got.outcome = want.outcome
    /\ got.outcome = "return" =>
         /\ got.value.success = want.value.success
         /\ Artefact(got.value) = Artefact(want.value)

\* The original C7: whatever the tool, a request that names a theme, palette
\* or style that is no known one ends as the same request with the default
\* name does (chart theme 'light', palette 'default', table style 'default',
\* diagram and mindmap theme 'default').
C7_UnknownNameIsDefault ==
    \A t \in Tasks :
        Finished(t) =>
            LET req == call[t]
            IN /\ req.tool = "plot_data_chart" => SameOutcome(result[t], ChartWithDefaults(req))
               /\ req.tool = "generate_table" => SameOutcome(result[t], TableWithDefaults(req))
               /\ req.tool = "draw_logic_flow" =>
                    result[t].value.image_url
                      = ImageUrl(encode_mermaid(
                            ThemedCode(OrDefault(req.theme, [n \in DiagramThemes |-> n], "default"),
                                       req.diagram_code)))
               /\ req.tool = "render_mindmap" =>
                    SameOutcome(result[t],
                        RenderMindmap([req EXCEPT
                            !.theme = OrDefault(@, [n \in DiagramThemes |-> n], "default")]))

\* C7 as amended: a chart request that names an unknown theme or palette, and
\* a table request that names an unknown style, end as the same request with
\* the default name does (same success, same image URL or table text); a
\* diagram or mindmap request is never refused for its theme name, which goes
\* into the theme directive as given.
C7_LookupFallsBack ==
    \A t \in Tasks :
        Finished(t) =>
            LET req == call[t]
            IN /\ req.tool = "plot_data_chart" => SameOutcome(result[t], ChartWithDefaults(req))
               /\ req.tool = "generate_table" => SameOutcome(result[t], TableWithDefaults(req))
               /\ req.tool \in {"draw_logic_flow", "render_mindmap"} =>
                    /\ result[t].outcome = "return"
                    /\ result[t].value.success
                    /\ result[t].value.theme = req.theme

\* a chart has been produced for a request that names a theme and a palette
\* that are no keys of the tables
C7_Witness ==
    /\ Returned(1, "plot_data_chart")
    /\ call[1].theme = "neon" /\ call[1].color_palette = "rainbow"
    /\ result[1].value.success

\* C10: in every interleaving, a draw_logic_flow invocation has issued exactly
\* one probe request when it returns, never more at any time, with its client
\* closed by then; the other three tools issue no request and open no client.
C10_OneProbe ==
    /\ \A t \in Tasks :
          /\ sent[t] <= 1
          /\ pc[t] \in {"return", "done"} /\ call[t].tool = "draw_logic_flow" =>
                sent[t] = 1 /\ client[t] = "closed"
          /\ call[t].tool \in {"plot_data_chart", "render_mindmap", "generate_table"} =>
                sent[t] = 0 /\ client[t] = "none"
    /\ \A m \in net : call[m.task].tool = "draw_logic_flow" /\ pc[m.task] = "await"
    /\ \A m1, m2 \in net : m1.task = m2.task => m1 = m2

\* one invocation has returned after a failed probe while another's probe is
\* still in flight
C10_Witness ==
    /\ Returned(1, "draw_logic_flow")
    /\ local[1].probe.kind = "exception"
    /\ sent[1] = 1 /\ client[1] = "closed"
    /\ pc[2] = "await"
    /\ \E m \in net : m.task = 2

====
